---- MODULE Spec2Model ----
(***************************************************************************)
(* User Management API: the users table, the data access layer and the     *)
(* HTTP handlers of app/main.py, one action per database call.  Every call *)
(* of Database.execute_query / execute_non_query opens its own connection, *)
(* runs one statement and commits, so one call is one atomic step; the     *)
(* handler code between two calls is local and belongs to the step before. *)
(* Requests served by different workers on the same app.db interleave      *)
(* between their calls; nothing in the handlers or in db.py serialises     *)
(* them.                                                                   *)
(***************************************************************************)
EXTENDS Integers, Sequences, FiniteSets, TLC

\* ------------------------------------------------------------------ bounds
MaxId == 2          \* ids handed out by AUTOINCREMENT stay within 1..MaxId
MaxClock == 1       \* CURRENT_TIMESTAMP ranges over 0..MaxClock
NumReqs == 2        \* requests served at the same time

SearchLimit == 20   \* LIMIT 20 of search_users

Reqs == 1..NumReqs

\* ------------------------------------------------------------ input values
\* Texts are sequences of characters, so that LIKE can look inside them.
Emails == {<<"a", "@", "x">>, <<"b", "@", "x">>}
Queries == {<<"n">>, <<"z">>}

\* Optional[str] of UserUpdate: None, or a supplied value.
None == <<>>
Some(v) == <<v>>

\* A path parameter arrives as text; FastAPI converts it for `user_id: int`.
Digits == <<"1", "2", "3", "4", "5", "6", "7", "8", "9">>
IsIntText(s) == \E i \in 1..Len(Digits) : Digits[i] = s
ParseInt(s) == CHOOSE i \in 1..Len(Digits) : Digits[i] = s
IdTexts == {Digits[i] : i \in 1..MaxId}

NoBody == [name |-> None, email |-> None, phone |-> None]
CreateBodies ==
    {[name |-> Some(n), email |-> Some(e), phone |-> Some(p)] :
        n \in {<<"a", "n">>}, e \in Emails, p \in {<<"5">>}}
UpdateBodies ==
    {NoBody,
     [name |-> Some(<<"b", "o">>), email |-> None, phone |-> None],
     [name |-> None, email |-> None, phone |-> Some(<<"9">>)]}
    \cup {[name |-> None, email |-> Some(e), phone |-> None] : e \in Emails}
    \cup {[name |-> Some(<<"b", "o">>), email |-> Some(e), phone |-> Some(<<"9">>)] : e \in Emails}

\* The HTTP requests a client sends: method, path segments ("/users/" ends in
\* an empty segment), the query string's `query` and the JSON body.
HttpRequest(m, p, q, b) == [method |-> m, path |-> p, query |-> q, body |-> b]
PostUsers == {HttpRequest("POST", <<"users", "">>, None, b) : b \in CreateBodies}
PutUsers == {HttpRequest("PUT", <<"users", i>>, None, b) : i \in IdTexts, b \in UpdateBodies}
DeleteUsers == {HttpRequest("DELETE", <<"users", i>>, None, NoBody) : i \in IdTexts}
GetUsers == {HttpRequest("GET", <<"users", i>>, None, NoBody) : i \in IdTexts}
GetSearches == {HttpRequest("GET", <<"users", "search">>, Some(q), NoBody) : q \in Queries}
HttpRequests == PostUsers \cup PutUsers \cup DeleteUsers \cup GetUsers \cup GetSearches
NoRequest == HttpRequest("", <<>>, None, NoBody)

\* ------------------------------------------------------------------ routing
\* The routes of `app` in declaration order; "{}" is a path parameter.
Routes ==
    << [method |-> "GET", path |-> <<"">>, handler |-> "root"],
       [method |-> "GET", path |-> <<"health">>, handler |-> "health_check"],
       [method |-> "GET", path |-> <<"config">>, handler |-> "get_config"],
       [method |-> "GET", path |-> <<"users", "">>, handler |-> "get_users"],
       [method |-> "GET", path |-> <<"users", "{}">>, handler |-> "get_user"],
       [method |-> "POST", path |-> <<"users", "">>, handler |-> "create_user"],
       [method |-> "PUT", path |-> <<"users", "{}">>, handler |-> "update_user"],
       [method |-> "DELETE", path |-> <<"users", "{}">>, handler |-> "delete_user"],
       [method |-> "GET", path |-> <<"users", "search">>, handler |-> "search_users"] >>

\* A path parameter matches any non-empty segment; a literal matches itself.
SegmentMatches(pat, seg) == IF pat = "{}" THEN seg # "" ELSE pat = seg
PathMatches(pat, path) ==
    /\ Len(pat) = Len(path)
    /\ \A i \in 1..Len(pat) : SegmentMatches(pat[i], path[i])
RouteMatches(route, request) ==
    /\ route.method = request.method
    /\ PathMatches(route.path, request.path)

\* The first route, in declaration order, that matches the request.
MatchingRoutes(request) == {i \in 1..Len(Routes) : RouteMatches(Routes[i], request)}
Dispatch(request) ==
    IF MatchingRoutes(request) = {} THEN "not_found"
    ELSE Routes[CHOOSE i \in MatchingRoutes(request) :
                    \A j \in MatchingRoutes(request) : i <= j].handler

\* Handlers that declare `user_id: int`.
TakesUserId(handler) == handler \in {"get_user", "update_user", "delete_user"}
ValidParams(request) ==
    TakesUserId(Dispatch(request)) => IsIntText(request.path[2])
UserIdOf(request) == ParseInt(request.path[2])

\* ---------------------------------------------------------------- responses
Response(s, d, b) == [status |-> s, detail |-> d, body |-> b]
NoResponse == Response(0, "", {})
UserDict(u) == [id |-> u.id, name |-> u.name, email |-> u.email, phone |-> u.phone]

\* ---------------------------------------------------------- the users table
\* CREATE_USERS_TABLE: a row of users.
Row(i, n, e, p, c, u) ==
    [id |-> i, name |-> n, email |-> e, phone |-> p, created_at |-> c, updated_at |-> u]

Max(S) == CHOOSE x \in S : \A y \in S : y <= x
RowIds(tbl) == {u.id : u \in tbl}

\* Fault injection: INTEGER PRIMARY KEY without AUTOINCREMENT reuses the largest free id.
NextRowId_NoAutoincrement(tbl, s) == Max(RowIds(tbl) \cup {0}) + 1
\* INTEGER PRIMARY KEY AUTOINCREMENT: one more than the largest id ever used,
\* which sqlite_sequence remembers across deletes.
NextRowId(tbl, s) == Max(RowIds(tbl) \cup {s}) + 1

\* Fault injection: the email column declared without UNIQUE.
UniqueViolation_NoConstraint(tbl, email, id) == FALSE
\* email TEXT NOT NULL UNIQUE: would the row `id` holding `email` collide?
UniqueViolation(tbl, email, id) == \E u \in tbl : u.email = email /\ u.id # id

\* "SELECT ... FROM users WHERE id = ?"
SelectById(tbl, id) == {u \in tbl : u.id = id}
\* Fault injection: the pre-check compares the wrong column.
SelectIdByEmail_WrongColumn(tbl, email) == {u.id : u \in {v \in tbl : v.name = email}}
\* "SELECT id FROM users WHERE email = ?"
SelectIdByEmail(tbl, email) == {u.id : u \in {v \in tbl : v.email = email}}
\* Fault injection: the email check of update_user without "AND id != ?".
SelectIdByEmailExcept_NoIdFilter(tbl, email, id) ==
    {u.id : u \in {v \in tbl : v.email = email}}
\* "SELECT id FROM users WHERE email = ? AND id != ?"
SelectIdByEmailExcept(tbl, email, id) ==
    {u.id : u \in {v \in tbl : v.email = email /\ v.id # id}}

\* Fault injection: the INSERT parameters in the wrong order.
InsertUser_Swapped(id, t, name, email, phone) == Row(id, phone, email, name, t, t)
\* "INSERT INTO users (name, email, phone) VALUES (?, ?, ?)" at time t:
\* both timestamps default to CURRENT_TIMESTAMP.
InsertUser(id, t, name, email, phone) == Row(id, name, email, phone, t, t)

\* Fault injection: "updated_at = CURRENT_TIMESTAMP" appended before the emptiness test.
UpdateFields_WithTimestamp(body) ==
    {f \in {"name", "email", "phone", "updated_at"} :
        IF f = "updated_at" THEN TRUE ELSE body[f] # None}
\* The columns update_user puts in update_fields for a body.
UpdateFields(body) == {f \in {"name", "email", "phone"} : body[f] # None}

\* Fault injection: the UPDATE without "updated_at = CURRENT_TIMESTAMP".
ApplyUpdate_StaleTimestamp(u, body, t) ==
    Row(u.id,
        IF body.name # None THEN body.name[1] ELSE u.name,
        IF body.email # None THEN body.email[1] ELSE u.email,
        IF body.phone # None THEN body.phone[1] ELSE u.phone,
        u.created_at,
        u.updated_at)
\* "UPDATE users SET <update_fields>, updated_at = CURRENT_TIMESTAMP" on a row.
ApplyUpdate(u, body, t) ==
    Row(u.id,
        IF body.name # None THEN body.name[1] ELSE u.name,
        IF body.email # None THEN body.email[1] ELSE u.email,
        IF body.phone # None THEN body.phone[1] ELSE u.phone,
        u.created_at,
        t)

\* SQL LIKE: % matches any run of characters, _ any one character.
RECURSIVE Like(_, _)
Like(pat, text) ==
    IF pat = <<>> THEN text = <<>>
    ELSE IF Head(pat) = "%"
         THEN Like(Tail(pat), text) \/ (text # <<>> /\ Like(pat, Tail(text)))
         ELSE /\ text # <<>>
              /\ (Head(pat) = "_" \/ Head(pat) = Head(text))
              /\ Like(Tail(pat), Tail(text))

\* search_term = f"%{query}%"
SearchTerm(query) == <<"%">> \o query \o <<"%">>
\* "WHERE name LIKE ? OR email LIKE ?"
SearchMatches(tbl, query) ==
    {u \in tbl : Like(SearchTerm(query), u.name) \/ Like(SearchTerm(query), u.email)}
Min2(a, b) == IF a <= b THEN a ELSE b
\* "LIMIT 20" without ORDER BY: any SearchLimit of the matching rows.
SearchResults(tbl, query) ==
    {S \in SUBSET SearchMatches(tbl, query) :
        Cardinality(S) = Min2(SearchLimit, Cardinality(SearchMatches(tbl, query)))}

\* -------------------------------------------------------------------- state
VARIABLES
    users,   \* the rows of table users in app.db
    seq,     \* sqlite_sequence.seq of users: the largest id ever inserted
    now,     \* CURRENT_TIMESTAMP
    req,     \* req[r]: the HTTP request slot r is serving
    pc,      \* pc[r]: the database call slot r makes next
    resp     \* resp[r]: the response slot r has produced

vars == <<users, seq, now, req, pc, resp>>

Init ==
    /\ users = {}
    /\ seq = 0
    /\ now = 0
    /\ req = [r \in Reqs |-> NoRequest]
    /\ pc = [r \in Reqs |-> "idle"]
    /\ resp = [r \in Reqs |-> NoResponse]

\* The first database call of each handler.
StartOf(handler) ==
    CASE handler = "create_user" -> "create_check"
      [] handler = "update_user" -> "update_check"
      [] handler = "delete_user" -> "delete_check"
      [] OTHER -> "query"

Finish(r, response) ==
    /\ pc' = [pc EXCEPT ![r] = "done"]
    /\ resp' = [resp EXCEPT ![r] = response]
Goto(r, label) ==
    /\ pc' = [pc EXCEPT ![r] = label]
    /\ UNCHANGED resp

CreatesInFlight == Cardinality({r \in Reqs : pc[r] \in {"create_check", "create_insert"}})

\* A request arrives, is routed and has its parameters converted.
Receive(r) ==
    /\ pc[r] = "idle"
    /\ \E h \in HttpRequests :
        /\ Dispatch(h) = "create_user" => seq + CreatesInFlight < MaxId
        /\ req' = [req EXCEPT ![r] = h]
        /\ IF ValidParams(h)
           THEN Goto(r, StartOf(Dispatch(h)))
           ELSE Finish(r, Response(422, "Input should be a valid integer", {}))
    /\ UNCHANGED <<users, seq, now>>

\* get_user and search_users: one SELECT, then the response.
RunQuery(r) ==
    /\ pc[r] = "query"
    /\ IF Dispatch(req[r]) = "get_user"
       THEN LET results == SelectById(users, UserIdOf(req[r]))
            IN IF results = {}
               THEN Finish(r, Response(404, "User not found", {}))
               ELSE Finish(r, Response(200, "", {UserDict(u) : u \in results}))
       ELSE \E results \in SearchResults(users, req[r].query[1]) :
               Finish(r, Response(200, "", {UserDict(u) : u \in results}))
    /\ UNCHANGED <<users, seq, now, req>>

\* create_user: the email pre-check.
CreateCheck(r) ==
    /\ pc[r] = "create_check"
    /\ IF SelectIdByEmail(users, req[r].body.email[1]) # {}
       THEN Finish(r, Response(400, "Email already exists", {}))
       ELSE Goto(r, "create_insert")
    /\ UNCHANGED <<users, seq, now, req>>

\* create_user: the INSERT and the response built from lastrowid.
CreateInsert(r) ==
    /\ pc[r] = "create_insert"
    /\ LET b == req[r].body
           id == NextRowId(users, seq)
           row == InsertUser(id, now, b.name[1], b.email[1], b.phone[1])
       IN IF UniqueViolation(users, b.email[1], id)
          THEN /\ Finish(r, Response(500,
                    "Error creating user: UNIQUE constraint failed: users.email", {}))
               /\ UNCHANGED <<users, seq>>
          ELSE /\ users' = users \cup {row}
               /\ seq' = id
               /\ Finish(r, Response(200, "",
                    {[id |-> id, name |-> b.name[1], email |-> b.email[1],
                      phone |-> b.phone[1]]}))
    /\ UNCHANGED <<now, req>>

\* update_user: the existence check, then the handler code up to the next call.
UpdateCheck(r) ==
    /\ pc[r] = "update_check"
    /\ IF SelectById(users, UserIdOf(req[r])) = {}
       THEN Finish(r, Response(404, "User not found", {}))
       ELSE IF req[r].body.email # None
            THEN Goto(r, "update_email")
            ELSE IF UpdateFields(req[r].body) = {}
                 THEN Finish(r, Response(400, "No fields to update", {}))
                 ELSE Goto(r, "update_write")
    /\ UNCHANGED <<users, seq, now, req>>

\* update_user: is the email taken by another user?
UpdateEmailCheck(r) ==
    /\ pc[r] = "update_email"
    /\ IF SelectIdByEmailExcept(users, req[r].body.email[1], UserIdOf(req[r])) # {}
       THEN Finish(r, Response(400, "Email already exists", {}))
       ELSE Goto(r, "update_write")
    /\ UNCHANGED <<users, seq, now, req>>

\* update_user: the UPDATE; it changes the row if the row is still there.
UpdateWrite(r) ==
    /\ pc[r] = "update_write"
    /\ LET id == UserIdOf(req[r])
           b == req[r].body
           old == SelectById(users, id)
       IN IF old # {} /\ b.email # None /\ UniqueViolation(users, b.email[1], id)
          THEN /\ Finish(r, Response(500,
                    "Error updating user: UNIQUE constraint failed: users.email", {}))
               /\ UNCHANGED users
          ELSE /\ users' = (users \ old) \cup {ApplyUpdate(u, b, now) : u \in old}
               /\ Goto(r, "update_read")
    /\ UNCHANGED <<seq, now, req>>

\* update_user: re-read the row; [0] on an empty result raises IndexError.
UpdateRead(r) ==
    /\ pc[r] = "update_read"
    /\ LET results == SelectById(users, UserIdOf(req[r]))
       IN IF results = {}
          THEN Finish(r, Response(500, "Error updating user: list index out of range", {}))
          ELSE Finish(r, Response(200, "", {UserDict(u) : u \in results}))
    /\ UNCHANGED <<users, seq, now, req>>

\* delete_user: the existence check.
DeleteCheck(r) ==
    /\ pc[r] = "delete_check"
    /\ IF SelectById(users, UserIdOf(req[r])) = {}
       THEN Finish(r, Response(404, "User not found", {}))
       ELSE Goto(r, "delete_write")
    /\ UNCHANGED <<users, seq, now, req>>

\* delete_user: the DELETE, which succeeds whether or not a row matched.
DeleteWrite(r) ==
    /\ pc[r] = "delete_write"
    /\ users' = users \ SelectById(users, UserIdOf(req[r]))
    /\ Finish(r, Response(200, "User deleted successfully", {}))
    /\ UNCHANGED <<seq, now, req>>

\* The response has been sent; the slot takes the next request.
Respond(r) ==
    /\ pc[r] = "done"
    /\ pc' = [pc EXCEPT ![r] = "idle"]
    /\ req' = [req EXCEPT ![r] = NoRequest]
    /\ resp' = [resp EXCEPT ![r] = NoResponse]
    /\ UNCHANGED <<users, seq, now>>

\* Time passes.
Tick ==
    /\ now < MaxClock
    /\ now' = now + 1
    /\ UNCHANGED <<users, seq, req, pc, resp>>

Next ==
    \/ \E r \in Reqs : Receive(r)
    \/ \E r \in Reqs : RunQuery(r)
    \/ \E r \in Reqs : CreateCheck(r)
    \/ \E r \in Reqs : CreateInsert(r)
    \/ \E r \in Reqs : UpdateCheck(r)
    \/ \E r \in Reqs : UpdateEmailCheck(r)
    \/ \E r \in Reqs : UpdateWrite(r)
    \/ \E r \in Reqs : UpdateRead(r)
    \/ \E r \in Reqs : DeleteCheck(r)
    \/ \E r \in Reqs : DeleteWrite(r)
    \/ \E r \in Reqs : Respond(r)
    \/ Tick

Spec == Init /\ [][Next]_vars

\* ------------------------------------------------------------ the contract
\* Vocabulary of the properties, stated on the table itself.
Handler(r) == Dispatch(req[r])
Done(r, handler) == pc[r] = "done" /\ Handler(r) = handler
\* Slot r takes the step that leaves `label`.
Steps(r, label) == pc[r] = label /\ pc'[r] # label
EmailHeld(e) == \E u \in users : u.email = e
EmailHeldByOther(e, id) == \E u \in users : u.email = e /\ u.id # id
IdPresent(id) == \E u \in users : u.id = id
Submitted(r) ==
    [name |-> req[r].body.name[1], email |-> req[r].body.email[1],
     phone |-> req[r].body.phone[1]]
SameFields(d, b) == d.name = b.name /\ d.email = b.email /\ d.phone = b.phone
\* What a row looks like to a client.
Visible(u) == [id |-> u.id, name |-> u.name, email |-> u.email, phone |-> u.phone]
Success(r) == resp'[r].status = 200 /\ pc'[r] = "done"
Rejected(r, status, detail) ==
    /\ pc'[r] = "done"
    /\ resp'[r].status = status
    /\ resp'[r].detail = detail
    /\ resp'[r].body = {}

\* C1: the POST that loses the race on one email (both requests passed the
\* pre-check, the UNIQUE constraint rejected its INSERT) is answered with the
\* conflict status 400: a finished POST /users/ has status 200 or 400, never 500.
C1_RaceLoserGetsConflict ==
    \A r \in Reqs : Done(r, "create_user") => resp[r].status \in {200, 400}

\* C2: under every interleaving of the steps of creates, updates and deletes,
\* no two distinct rows of users hold the same email (and no two the same id).
C2_EmailUnique ==
    \A u, v \in users : u # v => u.email # v.email /\ u.id # v.id

\* C2 witness: two rows are stored and a POST that had passed the pre-check was
\* stopped by the UNIQUE constraint.
C2_Witness ==
    /\ Cardinality(users) = 2
    /\ \E r \in Reqs : Done(r, "create_user") /\ resp[r].status = 500

\* C3: a POST /users/ whose email is held by a row when the pre-check runs is
\* answered 400 "Email already exists", and no step of a POST whose email is held
\* changes the table.
C3_DuplicateCreateRejected ==
    [][\A r \in Reqs :
        /\ Steps(r, "create_check") /\ EmailHeld(Submitted(r).email)
             => Rejected(r, 400, "Email already exists") /\ users' = users
        /\ Steps(r, "create_insert") /\ EmailHeld(Submitted(r).email)
             => pc'[r] = "done" /\ resp'[r].status # 200 /\ users' = users /\ seq' = seq
      ]_vars

\* C3 witness: a POST was answered 400 and its email is held by a row.
C3_Witness ==
    \E r \in Reqs :
        /\ Done(r, "create_user")
        /\ resp[r].status = 400
        /\ EmailHeld(Submitted(r).email)

\* C4: a POST /users/ whose email no row holds passes the pre-check, and its
\* INSERT then succeeds: exactly one row is added, it carries the submitted
\* name, email and phone under an id no other row has, the response returns that
\* id and those fields, and GET /users/{id} returns the stored row for as long as
\* no UPDATE or DELETE of that id has run.
C4_FreshCreateSucceeds ==
    [][/\ \A r \in Reqs :
            /\ Steps(r, "create_check") /\ ~EmailHeld(Submitted(r).email)
                 => pc'[r] = "create_insert" /\ users' = users
            /\ Steps(r, "create_insert") /\ ~EmailHeld(Submitted(r).email)
                 => /\ Success(r)
                    /\ users \subseteq users'
                    /\ \E u \in users' \ users :
                         /\ users' = users \cup {u}
                         /\ ~IdPresent(u.id)
                         /\ SameFields(u, Submitted(r))
                         /\ resp'[r].body = {Visible(u)}
            /\ Steps(r, "query") /\ Handler(r) = "get_user"
                 => \A u \in users :
                        u.id = UserIdOf(req[r])
                            => Success(r) /\ resp'[r].body = {Visible(u)}
       /\ \A u \in users :
            \/ u \in users'
            \/ \E r \in Reqs :
                 /\ Steps(r, "update_write") \/ Steps(r, "delete_write")
                 /\ UserIdOf(req[r]) = u.id
      ]_vars

\* C4 witness: a POST was answered 200 with an id, and a GET of that id was
\* answered 200 with the submitted fields.
C4_Witness ==
    \E r, g \in Reqs :
        /\ Done(r, "create_user") /\ resp[r].status = 200
        /\ Done(g, "get_user") /\ resp[g].status = 200
        /\ resp[g].body = resp[r].body
        /\ \E d \in resp[g].body :
             d.id = UserIdOf(req[g]) /\ SameFields(d, Submitted(r))

\* C5: in PUT /users/{id} with an email, when a different row holds the email
\* the email check answers 400 "Email already exists", and the request has
\* changed no row, whatever else the body supplies; when the row {id} itself
\* holds the email the check passes, the UPDATE is accepted and keeps the
\* email, and the re-read of a row that is still there answers 200.
C5_UpdateEmailConflict ==
    [][\A r \in Reqs :
        LET id == UserIdOf(req[r])
            e == req[r].body.email[1]
            own == \E u \in users : u.id = id /\ u.email = e
        IN  /\ Steps(r, "update_check") \/ Steps(r, "update_email") => users' = users
            /\ Steps(r, "update_email") /\ EmailHeldByOther(e, id)
                 => Rejected(r, 400, "Email already exists")
            /\ Steps(r, "update_email") /\ own /\ ~EmailHeldByOther(e, id)
                 => pc'[r] = "update_write"
            /\ Steps(r, "update_write") /\ req[r].body.email # None /\ own
                    /\ ~EmailHeldByOther(e, id)
                 => /\ pc'[r] = "update_read"
                    /\ \E v \in users' : v.id = id /\ v.email = e
            /\ Steps(r, "update_read") /\ IdPresent(id) => Success(r)
      ]_vars

\* C5 witness: one PUT with name, email and phone was answered 400 because
\* another row holds the email, while a second PUT has passed the email check
\* with the email its own row holds.
C5_Witness ==
    \E r, o \in Reqs :
        /\ Done(r, "update_user")
        /\ resp[r].status = 400 /\ resp[r].detail = "Email already exists"
        /\ req[r].body.name # None /\ req[r].body.phone # None
        /\ pc[o] = "update_write" /\ req[o].body.email # None
        /\ \E u \in users : u.id = UserIdOf(req[o]) /\ u.email = req[o].body.email[1]

\* C6: the existence check of a PUT /users/{id} that supplies none of name,
\* email, phone ends the request: 404 when no row has the id, 400 "No fields to
\* update" when one has, and the table, updated_at included, is unchanged.
C6_EmptyUpdateRejected ==
    [][\A r \in Reqs :
        Steps(r, "update_check") /\ req[r].body = NoBody
            => /\ users' = users
               /\ IF IdPresent(UserIdOf(req[r]))
                  THEN Rejected(r, 400, "No fields to update")
                  ELSE Rejected(r, 404, "User not found")
      ]_vars

\* C6 witness: an empty PUT was answered 400 and its row still carries an
\* updated_at older than the current time.
C6_Witness ==
    \E r \in Reqs :
        /\ Done(r, "update_user") /\ req[r].body = NoBody
        /\ resp[r].status = 400
        /\ \E u \in users : u.id = UserIdOf(req[r]) /\ u.updated_at < now

\* C7: DELETE (and GET) of an id no row has is answered 404 and changes
\* nothing; the DELETE statement leaves no row with its id; and an id that has
\* been issued and is gone never comes back, whatever is created later.
C7_DeletedStaysDeleted ==
    [][/\ \A r \in Reqs :
            LET id == UserIdOf(req[r])
            IN  /\ Steps(r, "delete_check") /\ ~IdPresent(id)
                     => Rejected(r, 404, "User not found") /\ users' = users
                /\ Steps(r, "query") /\ Handler(r) = "get_user" /\ ~IdPresent(id)
                     => Rejected(r, 404, "User not found") /\ users' = users
                /\ Steps(r, "delete_check") /\ IdPresent(id) => pc'[r] = "delete_write"
                /\ Steps(r, "delete_write")
                     => Success(r) /\ id <= seq /\ ~\E u \in users' : u.id = id
       /\ \A u \in users : u.id <= seq
       /\ \A i \in 1..seq : ~IdPresent(i) => ~\E u \in users' : u.id = i
      ]_vars

\* C7 witness: a DELETE of an id that was issued and is gone was answered 404
\* while a row created with a later id is stored.
C7_Witness ==
    \E r \in Reqs :
        /\ Done(r, "delete_user") /\ resp[r].status = 404
        /\ UserIdOf(req[r]) <= seq
        /\ \E u \in users : u.id > UserIdOf(req[r])

\* C8: GET /users/search?query=q reaches search_users and is answered 200 with
\* at most 20 users, each of them matching q in name or email.
C8_SearchReachesHandler ==
    \A r \in Reqs :
        pc[r] = "done" /\ req[r].method = "GET" /\ req[r].path = <<"users", "search">>
            => /\ Handler(r) = "search_users"
               /\ resp[r].status = 200
               /\ Cardinality(resp[r].body) <= SearchLimit
               /\ \A d \in resp[r].body :
                    \/ Like(SearchTerm(req[r].query[1]), d.name)
                    \/ Like(SearchTerm(req[r].query[1]), d.email)

\* C9: the UPDATE of a PUT /users/{id} sets exactly the supplied fields of the
\* row {id} to the supplied values and updated_at to the current time, keeps
\* its other fields, its id and created_at, and keeps every other row; the
\* response of a successful PUT is the row as stored when it is re-read.
C9_PartialUpdate ==
    [][\A r \in Reqs :
        LET id == UserIdOf(req[r])
            b == req[r].body
        IN  /\ Steps(r, "update_write") /\ pc'[r] = "update_read"
                 => \A u \in users :
                      u.id = id =>
                        \E v \in users' :
                          /\ v.id = id
                          /\ v.name = (IF b.name = None THEN u.name ELSE b.name[1])
                          /\ v.email = (IF b.email = None THEN u.email ELSE b.email[1])
                          /\ v.phone = (IF b.phone = None THEN u.phone ELSE b.phone[1])
                          /\ v.created_at = u.created_at
                          /\ v.updated_at = now
                          /\ users' \ {v} = users \ {u}
            /\ Steps(r, "update_write") /\ pc'[r] # "update_read" => users' = users
            /\ Steps(r, "update_read") /\ resp'[r].status = 200
                 => /\ users' = users
                    /\ resp'[r].body = {Visible(u) : u \in {w \in users : w.id = id}}
                    /\ Cardinality(resp'[r].body) = 1
      ]_vars

\* C9 witness: a PUT that supplied only the phone was answered 200 with the new
\* phone; its row has a refreshed updated_at and another row is stored.
C9_Witness ==
    \E r \in Reqs :
        /\ Done(r, "update_user") /\ resp[r].status = 200
        /\ req[r].body.name = None /\ req[r].body.email = None
        /\ \E u \in users :
             /\ u.id = UserIdOf(req[r])
             /\ u.phone = req[r].body.phone[1]
             /\ resp[r].body = {Visible(u)}
             /\ u.updated_at > u.created_at
        /\ Cardinality(users) = 2

\* The details of the responses that report an error raised by the storage engine.
StorageErrors ==
    {"Error updating user: UNIQUE constraint failed: users.email",
     "Error creating user: UNIQUE constraint failed: users.email"}

\* C10: while the storage engine raises no error, a finished PUT or DELETE has
\* status 200, 400 or 404 (the only 500 is the one that reports a storage
\* error), and two finished DELETEs of one id have not both been answered 200.
C10_NoServerErrorWithoutStorageError ==
    /\ \A r \in Reqs :
         Done(r, "update_user") \/ Done(r, "delete_user")
            => \/ resp[r].status \in {200, 400, 404}
               \/ resp[r].detail \in StorageErrors
    /\ \A r, o \in Reqs :
         /\ r # o
         /\ Done(r, "delete_user") /\ Done(o, "delete_user")
         /\ UserIdOf(req[r]) = UserIdOf(req[o])
         => ~(resp[r].status = 200 /\ resp[o].status = 200)

====
